---- MODULE Spec2Model ----
(***************************************************************************)
(* Image Weighted Collage (src/Image-WeightedCollage.py): the main loop,   *)
(* the initial downscaler, the ordering strategies, the initial placement, *)
(* the force field solver, the overlap rescaler, the relaxation driver and *)
(* the final composition.                                                  *)
(*                                                                         *)
(* Numbers.  Python floats are held exactly where the code's decisions     *)
(* rest on them: a node's scale is a fraction <<num, den>> in lowest       *)
(* terms, and int(orig * scale) is the floor of the exact product.         *)
(* Coordinates (x, y, box edges, forces) are held in fixed point, Unit     *)
(* steps to the pixel, sqrt is the integer square root, and every          *)
(* division truncates toward zero.                                         *)
(***************************************************************************)
EXTENDS Integers, Sequences, FiniteSets, TLC

(***************************************************************************)
(* Parameters (lines 16-38 of the source)                                  *)
(***************************************************************************)
MARGIN_DISTANCE == 8
INITIAL_RADIUS == 512
MAX_INITIAL_DIM == 512
SCALE_FACTOR == <<19, 20>>            \* 0.95
MAX_SCALE_DOWN == <<3, 4>>            \* 0.75
MAX_MOVEMENT_PER_ITER == 128
REPULSION_STRENGTH == 10
RATE_DENOMINATOR == 10000             \* the rates below are in 1/10000
ATTRACTION_RATE == <<1, 10>>          \* (0.0001, 0.001)
ATTRACTION_WEIGHT == 1                \* 0.0001
RESCALE_PERIOD == 20                  \* iteration % 20 == 0

\* The source runs 4096 relaxation iterations and 25 random trials; the
\* model runs the same loops for these many.
RELAXATION_ITERATIONS == 21
RANDOM_COUNT == 2

\* Fixed-point resolution: Unit steps to the pixel, so that the solver's
\* epsilon of 0.1 pixel is one step.
Unit == 10

\* Inputs: a directory holds at most MaxImages image files (at most
\* MaxShuffled when the order is drawn at random), each of one of these
\* pixel sizes <<width, height>>.
MaxImages == 4
MaxShuffled == 2
ImageSizes == {<<800, 600>>, <<100, 60>>}
TargetSizes == {<<4096, 4096>>, <<1024, 1024>>}
\* MAX_RESCALE_ATTEMPTS is 16 in the source; the model also runs the rescale
\* loop with 2 attempts (in the modes that do not shuffle), where the loop is
\* left with its attempts used up.
RescaleBudgets == {16, 2}
SortTypes == {"NONE", "AREA", "WIDTH", "HEIGHT", "RANDOM"}

VARIABLES
    TARGET_SIZE,    \* configured output size <<w, h>>
    SORT_TYPE,      \* configured ordering mode
    MAX_RESCALE_ATTEMPTS,   \* configured number of sweeps per rescale loop
    image_paths,    \* the directory listing: one entry (its pixel size) per file
    pc,             \* position of the main program
    x,              \* the main loop's trial index
    output,         \* the current trial's output file name
    nodes,          \* the current trial's layout (sequence of node records)
    iteration,      \* run_relaxation's loop index
    attempt,        \* run_relaxation's inner rescale attempt index
    files,          \* the file system: output name -> saved image
    stdout,         \* the lines printed
    calls,          \* history: the calls run_relaxation has made, in order
    apart           \* history: the pairs of positions whose margined boxes
                    \* have been apart at some point since place_initial

vars == <<TARGET_SIZE, SORT_TYPE, MAX_RESCALE_ATTEMPTS, image_paths, pc, x, output, nodes,
          iteration, attempt, files, stdout, calls, apart>>

(***************************************************************************)
(* Arithmetic helpers                                                      *)
(***************************************************************************)
Abs(a) == IF a < 0 THEN -a ELSE a

Sgn(a) == IF a < 0 THEN -1 ELSE IF a > 0 THEN 1 ELSE 0

Min(a, b) == IF a < b THEN a ELSE b

Max(a, b) == IF a > b THEN a ELSE b

\* int(a / b) for b > 0: truncation toward zero
Quot(a, b) == Sgn(a) * (Abs(a) \div b)

\* floor(a * b / c) for a, b >= 0 and c > 0, without forming a * b
MulDiv(a, b, c) == (a \div c) * b + ((a % c) * b) \div c

RECURSIVE Gcd(_, _)
Gcd(a, b) == IF b = 0 THEN a ELSE Gcd(b, a % b)

\* a fraction in lowest terms
Frac(n, d) == LET g == Gcd(n, d) IN <<n \div g, d \div g>>

FracMul(p, q) == Frac(p[1] * q[1], p[2] * q[2])

\* a / b < c / d for a, c >= 0 and b, d > 0, without forming products
RECURSIVE RatioLess(_, _, _, _)
RatioLess(a, b, c, d) ==
    IF a \div b # c \div d THEN a \div b < c \div d
    ELSE IF a % b = 0 THEN c % d > 0
    ELSE IF c % d = 0 THEN FALSE
    ELSE RatioLess(d, c % d, b, a % b)

FracLess(p, q) == RatioLess(p[1], p[2], q[1], q[2])

FracMin(p, q) == IF FracLess(q, p) THEN q ELSE p

\* int(a * p) for an integer a >= 0 and a fraction p >= 0
ScaleInt(a, p) == (a * p[1]) \div p[2]

RECURSIVE SqrtIter(_, _)
SqrtIter(a, r) ==
    LET s == (r + a \div r) \div 2
    IN  IF s >= r THEN r ELSE SqrtIter(a, s)

\* math.sqrt, to the step below
Sqrt(a) == IF a = 0 THEN 0 ELSE SqrtIter(a, a)

\* math.cos and math.sin of k quarter turns, times the radius r
CosQuarter(k, r) == CASE k % 4 = 0 -> r [] k % 4 = 2 -> -r [] OTHER -> 0

SinQuarter(k, r) == CASE k % 4 = 1 -> r [] k % 4 = 3 -> -r [] OTHER -> 0

(***************************************************************************)
(* load_images, initial_rescale, the orderings, place_initial              *)
(***************************************************************************)
\* A node has no 'x' / 'y' key until place_initial gives it one.
Unplaced == -1

CENTER == <<TARGET_SIZE[1] \div 2, TARGET_SIZE[2] \div 2>>

\* the node load_images appends for the k-th path
LoadedNode(k) ==
    [image |-> k,
     orig_width |-> image_paths[k][1], orig_height |-> image_paths[k][2],
     width |-> image_paths[k][1], height |-> image_paths[k][2],
     scale |-> <<1, 1>>, fixed |-> FALSE,
     x |-> Unplaced, y |-> Unplaced]

load_images == [k \in 1..Len(image_paths) |-> LoadedNode(k)]

\* one pass of initial_rescale's loop body
RescaledInitially(n) ==
    IF n.width > MAX_INITIAL_DIM \/ n.height > MAX_INITIAL_DIM
    THEN LET scale_w == Frac(MAX_INITIAL_DIM, n.width)
             scale_h == Frac(MAX_INITIAL_DIM, n.height)
             scale == FracMin(scale_w, scale_h)
         IN  [n EXCEPT !.scale = scale,
                       !.width = ScaleInt(n.orig_width, scale),
                       !.height = ScaleInt(n.orig_height, scale)]
    ELSE n

initial_rescale(ns) == [k \in 1..Len(ns) |-> RescaledInitially(ns[k])]

\* the three sort keys (the lambdas of sort_by_area / _width / _height)
SortKey(n, by) ==
    CASE by = "AREA" -> n.width * n.height
      [] by = "WIDTH" -> n.width
      [] by = "HEIGHT" -> n.height

\* sorted(ns, key, reverse=True): descending, ties keep their order
RECURSIVE InsertDescending(_, _, _)
InsertDescending(sorted, n, by) ==
    IF sorted = <<>> THEN <<n>>
    ELSE IF SortKey(Head(sorted), by) >= SortKey(n, by)
         THEN <<Head(sorted)>> \o InsertDescending(Tail(sorted), n, by)
         ELSE <<n>> \o sorted

RECURSIVE SortedDescending(_, _, _)
SortedDescending(ns, k, by) ==
    IF k = 0 THEN <<>>
    ELSE InsertDescending(SortedDescending(ns, k - 1, by), ns[k], by)

sort_by_area(ns) == SortedDescending(ns, Len(ns), "AREA")

sort_by_width(ns) == SortedDescending(ns, Len(ns), "WIDTH")

sort_by_height(ns) == SortedDescending(ns, Len(ns), "HEIGHT")

\* the orders random.sample(ns, len(ns)) can return
Samples(ns) ==
    {[k \in 1..Len(ns) |-> ns[p[k]]] : p \in Permutations(1..Len(ns))}

\* place_initial on a non-empty list; k is the 1-based position, so the
\* source's i is k - 1 and its angle is angle_step * (k - 2), which for
\* up to five nodes is a whole number of quarter turns
PlacedNode(ns, k) ==
    IF k = 1
    THEN [ns[k] EXCEPT !.x = CENTER[1] * Unit, !.y = CENTER[2] * Unit,
                       !.fixed = TRUE]
    ELSE LET quarters == (12 * (k - 2)) \div Max(1, Len(ns) - 1)
         IN  [ns[k] EXCEPT
                !.x = CENTER[1] * Unit + CosQuarter(quarters, INITIAL_RADIUS * Unit),
                !.y = CENTER[2] * Unit + SinQuarter(quarters, INITIAL_RADIUS * Unit)]

place_initial(ns) == [k \in 1..Len(ns) |-> PlacedNode(ns, k)]

(***************************************************************************)
(* bounding_box, boxes_overlap                                             *)
(***************************************************************************)
bounding_box(node) ==
    <<node.x - (node.width * Unit) \div 2,
      node.y - (node.height * Unit) \div 2,
      node.x + (node.width * Unit) \div 2,
      node.y + (node.height * Unit) \div 2>>

boxes_overlap(b1, b2) ==
    ~ (\/ b1[3] + MARGIN_DISTANCE * Unit < b2[1]
       \/ b2[3] + MARGIN_DISTANCE * Unit < b1[1]
       \/ b1[4] + MARGIN_DISTANCE * Unit < b2[2]
       \/ b2[4] + MARGIN_DISTANCE * Unit < b1[2])

(***************************************************************************)
(* apply_forces                                                            *)
(***************************************************************************)
\* the 0.1 added to the distance
Epsilon == Unit \div 10

\* the repulsion n2 adds to n1's force: <<dx * factor, dy * factor>> when
\* the margined boxes overlap, nothing otherwise
Repulsion(n1, n2) ==
    IF boxes_overlap(bounding_box(n1), bounding_box(n2))
    THEN LET dx == n1.x - n2.x
             dy == n1.y - n2.y
             dist == Sqrt(dx * dx + dy * dy) + Epsilon
         IN  <<Quot(dx * REPULSION_STRENGTH * Unit, dist),
               Quot(dy * REPULSION_STRENGTH * Unit, dist)>>
    ELSE <<0, 0>>

\* the inner loop over j: the repulsion on ns[i] from the nodes j..Len(ns)
RECURSIVE RepulsionFrom(_, _, _)
RepulsionFrom(ns, i, j) ==
    IF j > Len(ns) THEN <<0, 0>>
    ELSE LET rest == RepulsionFrom(ns, i, j + 1)
             r == IF i = j THEN <<0, 0>> ELSE Repulsion(ns[i], ns[j])
         IN  <<r[1] + rest[1], r[2] + rest[2]>>

\* d * (rate + scale * ATTRACTION_WEIGHT), scale being area / TARGET_SIZE[0]
Attraction(d, rate, area) ==
    Sgn(d) * (MulDiv(rate * TARGET_SIZE[1] + area * ATTRACTION_WEIGHT,
                     Abs(d), TARGET_SIZE[1]) \div RATE_DENOMINATOR)

\* "Limit movement": a force longer than MAX_MOVEMENT_PER_ITER is cut to it
Limited(f) ==
    LET limit == MAX_MOVEMENT_PER_ITER * Unit
        sq == f[1] * f[1] + f[2] * f[2]
    IN  IF sq > limit * limit
        THEN <<Quot(f[1] * limit, Sqrt(sq)), Quot(f[2] * limit, Sqrt(sq))>>
        ELSE f

\* the force on ns[i], computed from the list as it stands
Force(ns, i) ==
    LET n1 == ns[i]
        b1 == bounding_box(n1)
        area == ((b1[3] - b1[1]) \div Unit) * ((b1[4] - b1[2]) \div Unit)
        rep == RepulsionFrom(ns, i, 1)
    IN  Limited(<<rep[1] + Attraction(CENTER[1] * Unit - n1.x, ATTRACTION_RATE[1], area),
                  rep[2] + Attraction(CENTER[2] * Unit - n1.y, ATTRACTION_RATE[2], area)>>)

\* (variant: the local scale of line 136 is stored in the node)
MovedStoringScale(ns, i) ==
    IF ns[i].fixed THEN ns
    ELSE LET f == Force(ns, i)
         IN  [ns EXCEPT ![i].x = @ + f[1], ![i].y = @ + f[2],
                        ![i].scale = Frac(ns[i].width * ns[i].height, TARGET_SIZE[1])]

\* (variant: the fixed node is not skipped)
MovedEvenIfFixed(ns, i) ==
    LET f == Force(ns, i)
    IN  [ns EXCEPT ![i].x = @ + f[1], ![i].y = @ + f[2]]

\* one pass of the outer loop: ns[i] is moved in place unless it is fixed
Moved(ns, i) ==
    IF ns[i].fixed THEN ns
    ELSE LET f == Force(ns, i)
         IN  [ns EXCEPT ![i].x = @ + f[1], ![i].y = @ + f[2]]

\* the outer loop from position i on, each pass reading the list the
\* passes before it left
RECURSIVE ForcesFrom(_, _)
ForcesFrom(ns, i) ==
    IF i > Len(ns) THEN ns ELSE ForcesFrom(Moved(ns, i), i + 1)

\* (variant: the outer loop runs from the last node to the first)
RECURSIVE ForcesDownFrom(_, _)
ForcesDownFrom(ns, i) ==
    IF i < 1 THEN ns ELSE ForcesDownFrom(Moved(ns, i), i - 1)

apply_forces_backwards(ns) == ForcesDownFrom(ns, Len(ns))

apply_forces(ns) == ForcesFrom(ns, 1)

(***************************************************************************)
(* attempt_rescale                                                         *)
(***************************************************************************)
\* (variant: the comparison is turned round)
Larger(ns, i, j) ==
    IF ns[i].width * ns[i].height > ns[j].width * ns[j].height THEN i ELSE j

\* which of the pair is scaled down: n1 when strictly smaller, else n2
Smaller(ns, i, j) ==
    IF ns[i].width * ns[i].height < ns[j].width * ns[j].height THEN i ELSE j

\* (variant: the floor is not tested)
CanShrinkUnchecked(n) == n.scale[1] > 0

\* whether the node may still be scaled down: new_scale >= MAX_SCALE_DOWN
CanShrink(n) == ~ FracLess(FracMul(n.scale, SCALE_FACTOR), MAX_SCALE_DOWN)

\* (variant: the height is not recomputed)
ShrunkWidthOnly(n) ==
    LET new_scale == FracMul(n.scale, SCALE_FACTOR)
    IN  [n EXCEPT !.scale = new_scale,
                  !.width = ScaleInt(n.orig_width, new_scale)]

\* lines 183-187: the node scaled down one step
Shrunk(n) ==
    LET new_scale == FracMul(n.scale, SCALE_FACTOR)
    IN  [n EXCEPT !.scale = new_scale,
                  !.width = ScaleInt(n.orig_width, new_scale),
                  !.height = ScaleInt(n.orig_height, new_scale)]

\* (variant: changed is not set)
RescalePairUnflagged(st, i, j) ==
    LET ns == st.nodes
        s == Smaller(ns, i, j)
    IN  IF boxes_overlap(bounding_box(ns[i]), bounding_box(ns[j])) /\ CanShrink(ns[s])
        THEN [nodes |-> [ns EXCEPT ![s] = Shrunk(ns[s])], changed |-> st.changed]
        ELSE st

\* the body of the inner loop for the pair i < j, on [nodes, changed]
RescalePair(st, i, j) ==
    LET ns == st.nodes
        s == Smaller(ns, i, j)
    IN  IF boxes_overlap(bounding_box(ns[i]), bounding_box(ns[j])) /\ CanShrink(ns[s])
        THEN [nodes |-> [ns EXCEPT ![s] = Shrunk(ns[s])], changed |-> TRUE]
        ELSE st

\* the pairs i < j in the order the two loops visit them
RECURSIVE PairsFrom(_, _, _)
PairsFrom(n, i, j) ==
    IF i > n THEN <<>>
    ELSE IF j > n THEN PairsFrom(n, i + 1, i + 2)
    ELSE <<<<i, j>>>> \o PairsFrom(n, i, j + 1)

Pairs(n) == PairsFrom(n, 1, 2)

\* the sweep after the first k pairs
RECURSIVE SweepAfter(_, _)
SweepAfter(ns, k) ==
    IF k = 0 THEN [nodes |-> ns, changed |-> FALSE]
    ELSE LET p == Pairs(Len(ns))[k]
         IN  RescalePair(SweepAfter(ns, k - 1), p[1], p[2])

\* attempt_rescale: the nodes it leaves and the flag it returns
attempt_rescale(ns) == SweepAfter(ns, Len(Pairs(Len(ns))))

(***************************************************************************)
(* compose_final_image                                                     *)
(***************************************************************************)
RECURSIVE BoxMin(_, _, _)
BoxMin(ns, k, c) ==
    IF k = 1 THEN bounding_box(ns[1])[c]
    ELSE Min(BoxMin(ns, k - 1, c), bounding_box(ns[k])[c])

RECURSIVE BoxMax(_, _, _)
BoxMax(ns, k, c) ==
    IF k = 1 THEN bounding_box(ns[1])[c]
    ELSE Max(BoxMax(ns, k - 1, c), bounding_box(ns[k])[c])

\* <<width, height>> of the canvas the nodes are pasted on
CanvasSize(ns) ==
    <<(BoxMax(ns, Len(ns), 3) - BoxMin(ns, Len(ns), 1)) \div Unit,
      (BoxMax(ns, Len(ns), 4) - BoxMin(ns, Len(ns), 2)) \div Unit>>

\* one alpha_composite call: which image, resized to what, pasted where
Layer(ns, k) ==
    [image |-> ns[k].image,
     size |-> <<ns[k].width, ns[k].height>>,
     at |-> <<(bounding_box(ns[k])[1] - BoxMin(ns, Len(ns), 1)) \div Unit,
              (bounding_box(ns[k])[2] - BoxMin(ns, Len(ns), 2)) \div Unit>>]

\* min(TARGET_SIZE[0] / width, TARGET_SIZE[1] / height)
ScaleToTarget(size) ==
    FracMin(Frac(TARGET_SIZE[1], size[1]), Frac(TARGET_SIZE[2], size[2]))

\* (variant: the canvas is never resized)
FinalSizeAsIs(size) == size

\* the size of the returned canvas: resized only when scale_to_target < 1.0
FinalSize(size) ==
    IF FracLess(ScaleToTarget(size), <<1, 1>>)
    THEN <<ScaleInt(size[1], ScaleToTarget(size)),
           ScaleInt(size[2], ScaleToTarget(size))>>
    ELSE size

compose_final_image(ns) ==
    [canvas |-> CanvasSize(ns),
     layers |-> [k \in 1..Len(ns) |-> Layer(ns, k)],
     size |-> FinalSize(CanvasSize(ns))]

(***************************************************************************)
(* The main program                                                        *)
(***************************************************************************)
\* SORT_TYPE.lower()
Lower(s) ==
    CASE s = "NONE" -> "none"
      [] s = "AREA" -> "area"
      [] s = "WIDTH" -> "width"
      [] s = "HEIGHT" -> "height"
      [] s = "RANDOM" -> "random"

\* OUTPUT_FILE with the pound sign replaced
OutputFile(tag) == "collage-" \o tag \o ".png"

count == IF SORT_TYPE = "RANDOM" THEN RANDOM_COUNT ELSE 1

\* (variant: the trial number is left out of the name)
OutputNameUnnumbered(i) == OutputFile(Lower(SORT_TYPE))

\* lines 241-244: the name of trial i's file
OutputName(i) ==
    IF count > 1
    THEN OutputFile(Lower(SORT_TYPE) \o ToString(i + 1))
    ELSE OutputFile(Lower(SORT_TYPE))

\* (variant: every iteration runs the rescale loop)
RescaleDueAlways(i) == i >= 0

\* line 196: whether the iteration runs the rescale loop
RescaleDue(i) == i % RESCALE_PERIOD = 0

\* the directory listings: up to MaxImages files, in any order
Listings == UNION {[1..n -> ImageSizes] : n \in 0..MaxImages}

Init ==
    /\ TARGET_SIZE \in TargetSizes
    /\ SORT_TYPE \in SortTypes
    /\ MAX_RESCALE_ATTEMPTS \in RescaleBudgets
    /\ image_paths \in Listings
    /\ SORT_TYPE = "RANDOM" =>
            /\ Len(image_paths) <= MaxShuffled
            /\ MAX_RESCALE_ATTEMPTS = 16
    /\ pc = "trial"
    /\ x = 0
    /\ output = ""
    /\ nodes = <<>>
    /\ iteration = 0
    /\ attempt = 0
    /\ files = <<>>
    /\ stdout = <<>>
    /\ calls = <<>>
    /\ apart = {}

config == <<TARGET_SIZE, SORT_TYPE, MAX_RESCALE_ATTEMPTS, image_paths>>

\* the pairs i < j of the list whose margined boxes do not overlap
ApartPairs(ns) ==
    {q \in (1..Len(ns)) \X (1..Len(ns)) :
        /\ q[1] < q[2]
        /\ ~ boxes_overlap(bounding_box(ns[q[1]]), bounding_box(ns[q[2]]))}

\* lines 239-247: the loop head, the file name, load_images
LoadImages ==
    /\ pc = "trial"
    /\ x < count
    /\ output' = OutputName(x)
    /\ nodes' = load_images
    /\ apart' = {}
    /\ pc' = "loaded"
    /\ UNCHANGED <<config, x, iteration, attempt, files, stdout, calls>>

\* line 250
InitialRescale ==
    /\ pc = "loaded"
    /\ nodes' = initial_rescale(nodes)
    /\ pc' = "rescaled"
    /\ UNCHANGED <<config, x, output, iteration, attempt, files, stdout, calls, apart>>

\* lines 253-260: no branch is taken for NONE
SortNone ==
    /\ pc = "rescaled"
    /\ SORT_TYPE = "NONE"
    /\ pc' = "ordered"
    /\ UNCHANGED <<config, x, output, nodes, iteration, attempt, files, stdout, calls, apart>>

SortArea ==
    /\ pc = "rescaled"
    /\ SORT_TYPE = "AREA"
    /\ nodes' = sort_by_area(nodes)
    /\ pc' = "ordered"
    /\ UNCHANGED <<config, x, output, iteration, attempt, files, stdout, calls, apart>>

SortWidth ==
    /\ pc = "rescaled"
    /\ SORT_TYPE = "WIDTH"
    /\ nodes' = sort_by_width(nodes)
    /\ pc' = "ordered"
    /\ UNCHANGED <<config, x, output, iteration, attempt, files, stdout, calls, apart>>

SortHeight ==
    /\ pc = "rescaled"
    /\ SORT_TYPE = "HEIGHT"
    /\ nodes' = sort_by_height(nodes)
    /\ pc' = "ordered"
    /\ UNCHANGED <<config, x, output, iteration, attempt, files, stdout, calls, apart>>

SortRandom ==
    /\ pc = "rescaled"
    /\ SORT_TYPE = "RANDOM"
    /\ nodes' \in Samples(nodes)
    /\ pc' = "ordered"
    /\ UNCHANGED <<config, x, output, iteration, attempt, files, stdout, calls, apart>>

\* line 263, and the entry of run_relaxation; nodes[0] of an empty list
\* raises IndexError, which ends the program
PlaceInitial ==
    /\ pc = "ordered"
    /\ IF Len(nodes) = 0
       THEN /\ pc' = "aborted"
            /\ UNCHANGED <<nodes, iteration, attempt, calls, apart>>
       ELSE /\ nodes' = place_initial(nodes)
            /\ apart' = ApartPairs(place_initial(nodes))
            /\ iteration' = 0
            /\ attempt' = 0
            /\ calls' = <<>>
            /\ pc' = IF RELAXATION_ITERATIONS > 0 THEN "forces" ELSE "relaxed"
    /\ UNCHANGED <<config, x, output, files, stdout>>

\* run_relaxation, lines 194-196: one iteration's apply_forces, then the
\* rescale loop if the iteration is a multiple of 20, else the next iteration
ApplyForces ==
    /\ pc = "forces"
    /\ nodes' = apply_forces(nodes)
    /\ apart' = apart \cup ApartPairs(apply_forces(nodes))
    /\ calls' = Append(calls, [op |-> "apply_forces", iteration |-> iteration])
    /\ IF RescaleDue(iteration) /\ MAX_RESCALE_ATTEMPTS > 0
       THEN /\ pc' = "rescale"
            /\ attempt' = 0
            /\ UNCHANGED iteration
       ELSE /\ iteration' = iteration + 1
            /\ pc' = IF iteration + 1 < RELAXATION_ITERATIONS THEN "forces" ELSE "relaxed"
            /\ UNCHANGED attempt
    /\ UNCHANGED <<config, x, output, files, stdout>>

\* run_relaxation, lines 197-199: one attempt of the rescale loop; the loop
\* is left on a sweep that changed nothing or when the attempts are used up
AttemptRescale ==
    /\ pc = "rescale"
    /\ LET r == attempt_rescale(nodes)
       IN  /\ nodes' = r.nodes
           /\ apart' = apart \cup ApartPairs(r.nodes)
           /\ calls' = Append(calls, [op |-> "attempt_rescale", iteration |-> iteration,
                                      changed |-> r.changed])
           /\ IF r.changed /\ attempt + 1 < MAX_RESCALE_ATTEMPTS
              THEN /\ attempt' = attempt + 1
                   /\ UNCHANGED <<pc, iteration>>
              ELSE /\ iteration' = iteration + 1
                   /\ pc' = IF iteration + 1 < RELAXATION_ITERATIONS
                            THEN "forces" ELSE "relaxed"
                   /\ UNCHANGED attempt
    /\ UNCHANGED <<config, x, output, files, stdout>>

\* lines 269-271: compose, save (a file of the same name is replaced), print
ComposeAndSave ==
    /\ pc = "relaxed"
    /\ files' = [f \in DOMAIN files \cup {output} |->
                    IF f = output THEN compose_final_image(nodes) ELSE files[f]]
    /\ stdout' = Append(stdout, "Saved " \o output)
    /\ x' = x + 1
    /\ pc' = "trial"
    /\ UNCHANGED <<config, output, nodes, iteration, attempt, calls, apart>>

\* lines 272-273: the loop's else branch
Finish ==
    /\ pc = "trial"
    /\ x >= count
    /\ stdout' = Append(stdout, "Process completed")
    /\ pc' = "done"
    /\ UNCHANGED <<config, x, output, nodes, iteration, attempt, files, calls, apart>>

Next ==
    \/ LoadImages
    \/ InitialRescale
    \/ SortNone
    \/ SortArea
    \/ SortWidth
    \/ SortHeight
    \/ SortRandom
    \/ PlaceInitial
    \/ ApplyForces
    \/ AttemptRescale
    \/ ComposeAndSave
    \/ Finish

Spec == Init /\ [][Next]_vars

(***************************************************************************)
(* Properties                                                              *)
(***************************************************************************)
InRun == pc \in {"forces", "rescale", "relaxed"}

Indices == 1..Len(nodes)

FracLeq(p, q) == ~ FracLess(q, p)

\* the scale initial_rescale leaves a node of this original size with
InitialScale(n) ==
    IF n.orig_width > MAX_INITIAL_DIM \/ n.orig_height > MAX_INITIAL_DIM
    THEN FracMin(Frac(MAX_INITIAL_DIM, n.orig_width), Frac(MAX_INITIAL_DIM, n.orig_height))
    ELSE <<1, 1>>

\* the scale attempt_rescale stops at: the last power of SCALE_FACTOR that
\* is still at least MAX_SCALE_DOWN
FloorScale == <<2476099, 3200000>>

\* C1 as claimed: at every point after load every node's scale is in
\* [MAX_SCALE_DOWN, 1.0].
C1_ScaleInRange ==
    \A k \in Indices :
        /\ FracLeq(MAX_SCALE_DOWN, nodes[k].scale)
        /\ FracLeq(nodes[k].scale, <<1, 1>>)

\* C1 amended: every node's scale is positive and at most 1.0, and it is
\* at least the smaller of MAX_SCALE_DOWN and the scale initial_rescale
\* gives the node: only initial_rescale puts a scale below MAX_SCALE_DOWN.
C1_ScaleBounds ==
    \A k \in Indices :
        /\ nodes[k].scale[1] > 0
        /\ FracLeq(nodes[k].scale, <<1, 1>>)
        /\ FracLeq(FracMin(MAX_SCALE_DOWN, InitialScale(nodes[k])), nodes[k].scale)

\* a run in which one node was shrunk as far as it goes and another was
\* put below MAX_SCALE_DOWN by initial_rescale
C1_Witness ==
    /\ pc = "relaxed"
    /\ \E k \in Indices : nodes[k].scale = FloorScale
    /\ \E k \in Indices : FracLess(nodes[k].scale, MAX_SCALE_DOWN)

\* C2: during and after run_relaxation exactly one node is fixed, it is
\* the first of the order, and it is where place_initial put it, at CENTER.
C2_AnchorStays ==
    InRun =>
        /\ nodes[1].fixed
        /\ nodes[1].x = CENTER[1] * Unit
        /\ nodes[1].y = CENTER[2] * Unit
        /\ \A k \in Indices : nodes[k].fixed => k = 1

\* the relaxation is over and a node's margined box overlaps the anchor's,
\* so the anchor has been within reach of a repulsion
C2_Witness ==
    /\ pc = "relaxed"
    /\ \E k \in Indices :
        /\ k > 1
        /\ nodes[k].x # PlacedNode(nodes, k).x
        /\ boxes_overlap(bounding_box(nodes[1]), bounding_box(nodes[k]))

\* round(a * p), halves up
RoundInt(a, p) == (2 * a * p[1] + p[2]) \div (2 * p[2])

\* C4 as claimed: width and height are the products orig * scale rounded
\* to the nearest integer.
C4_Rounded ==
    \A k \in Indices :
        /\ nodes[k].width = RoundInt(nodes[k].orig_width, nodes[k].scale)
        /\ nodes[k].height = RoundInt(nodes[k].orig_height, nodes[k].scale)

\* v = int(a * p): v <= a * p < v + 1
IsTruncation(v, a, p) == v * p[2] <= a * p[1] /\ a * p[1] < (v + 1) * p[2]

\* C4 amended: width and height are the products orig * scale truncated
\* to an integer (rounded down, not to the nearest).
C4_Truncated ==
    \A k \in Indices :
        /\ IsTruncation(nodes[k].width, nodes[k].orig_width, nodes[k].scale)
        /\ IsTruncation(nodes[k].height, nodes[k].orig_height, nodes[k].scale)

\* a node attempt_rescale has shrunk to a size that rounding would not give
C4_Witness ==
    /\ InRun
    /\ \E k \in Indices :
        /\ FracLess(nodes[k].scale, InitialScale(nodes[k]))
        /\ nodes[k].width # RoundInt(nodes[k].orig_width, nodes[k].scale)

\* apply_forces with every force computed from the positions before the
\* sweep and the moves written after it
DeferredForces(ns) ==
    [k \in 1..Len(ns) |->
        IF ns[k].fixed THEN ns[k]
        ELSE [ns[k] EXCEPT !.x = @ + Force(ns, k)[1], !.y = @ + Force(ns, k)[2]]]

Undisturbed(k) ==
    \A j \in 1..(k - 1) :
        \/ nodes'[j] = nodes[j]
        \/ /\ ~ boxes_overlap(bounding_box(nodes[k]), bounding_box(nodes[j]))
           /\ ~ boxes_overlap(bounding_box(nodes[k]), bounding_box(nodes'[j]))

IsScaledDown(v, a, p) == v * p[2] <= a * p[1] /\ a * p[1] < (v + 2) * p[2]

\* C5: every saved image is at most TARGET_SIZE on both axes; it is the
\* canvas as composed when the canvas fits, and otherwise the canvas scaled
\* down on both axes by min(targetW / width, targetH / height), which is
\* then below 1; it is never larger than the canvas.
C5_FitsTarget ==
    \A f \in DOMAIN files :
        LET cw == files[f].canvas[1]
            ch == files[f].canvas[2]
            w == files[f].size[1]
            h == files[f].size[2]
            factor == FracMin(Frac(TARGET_SIZE[1], cw), Frac(TARGET_SIZE[2], ch))
        IN  /\ w <= TARGET_SIZE[1] /\ h <= TARGET_SIZE[2]
            /\ w <= cw /\ h <= ch
            /\ IF cw <= TARGET_SIZE[1] /\ ch <= TARGET_SIZE[2]
               THEN w = cw /\ h = ch
               ELSE /\ FracLess(factor, <<1, 1>>)
                    /\ IsScaledDown(w, cw, factor)
                    /\ IsScaledDown(h, ch, factor)

\* a saved image that was scaled down to the target
C5_Witness ==
    \E f \in DOMAIN files :
        /\ files[f].size # files[f].canvas
        /\ files[f].size[1] = TARGET_SIZE[1]

\* the images a saved file is composed of, in the order they were pasted
Pasted(f) == [k \in 1..Len(files[f].layers) |-> files[f].layers[k].image]

\* C6: with RANDOM the loop runs RANDOM_COUNT trials and with any other
\* mode one; each trial starts from freshly loaded nodes; at the end there
\* are as many files as trials (so no two trials share a name), one "Saved"
\* line each, and every file is composed of every input image exactly once.
C6_Batch ==
    LET T == IF SORT_TYPE = "RANDOM" THEN RANDOM_COUNT ELSE 1
    IN  /\ pc = "loaded" =>
            /\ Len(nodes) = Len(image_paths)
            /\ \A k \in Indices :
                nodes[k] = [image |-> k,
                            orig_width |-> image_paths[k][1],
                            orig_height |-> image_paths[k][2],
                            width |-> image_paths[k][1],
                            height |-> image_paths[k][2],
                            scale |-> <<1, 1>>, fixed |-> FALSE,
                            x |-> Unplaced, y |-> Unplaced]
        /\ pc = "trial" => Cardinality(DOMAIN files) = x /\ x <= T
        /\ pc = "done" =>
            /\ x = T
            /\ Cardinality(DOMAIN files) = T
            /\ Len(stdout) = T + 1
            /\ \A f \in DOMAIN files :
                /\ Len(Pasted(f)) = Len(image_paths)
                /\ \A i \in 1..Len(image_paths) :
                    Cardinality({k \in 1..Len(Pasted(f)) : Pasted(f)[k] = i}) = 1

\* a finished random batch of two files composed in different orders
C6_Witness ==
    /\ pc = "done"
    /\ SORT_TYPE = "RANDOM"
    /\ \E f, g \in DOMAIN files : f # g /\ Pasted(f) # Pasted(g)

\* the rescale loop of the current iteration has just been left on a sweep
\* that reported no change
SweepsSettled ==
    /\ pc \in {"forces", "relaxed"}
    /\ Len(calls) > 0
    /\ calls[Len(calls)].op = "attempt_rescale"
    /\ ~ calls[Len(calls)].changed

\* the pairs i < j whose margined boxes overlap
OverlappingPairs(ns) ==
    {q \in (1..Len(ns)) \X (1..Len(ns)) : q[1] < q[2]} \ ApartPairs(ns)

\* C7 as claimed: when the sweeps have settled, the smaller node of every
\* pair that has overlapped ever since placement has been shrunk to the
\* floor, and its scale is not below MAX_SCALE_DOWN.
C7_ShrunkToFloor ==
    SweepsSettled =>
        \A q \in OverlappingPairs(nodes) \ apart :
            LET s == Smaller(nodes, q[1], q[2])
            IN  /\ ~ CanShrink(nodes[s])
                /\ FracLeq(MAX_SCALE_DOWN, nodes[s].scale)

\* when the sweeps have settled, the smaller node of every overlapping
\* pair cannot be shrunk again, and one more sweep changes and reports
\* nothing
C7_Settled ==
    SweepsSettled =>
        /\ \A q \in OverlappingPairs(nodes) :
            ~ CanShrink(nodes[Smaller(nodes, q[1], q[2])])
        /\ attempt_rescale(nodes) = [nodes |-> nodes, changed |-> FALSE]

\* a sweep leaves alone every node one more step would take below
\* MAX_SCALE_DOWN, never leaves a scale it changed below MAX_SCALE_DOWN, and
\* shrinks something whenever a pair overlaps whose smaller node can shrink
C7_Sweep ==
    pc = "rescale" =>
        /\ \A k \in Indices :
            /\ ~ CanShrink(nodes[k]) => nodes'[k] = nodes[k]
            /\ nodes'[k].scale # nodes[k].scale =>
                /\ FracLeq(MAX_SCALE_DOWN, nodes'[k].scale)
                /\ FracLess(nodes'[k].scale, nodes[k].scale)
        /\ (\E q \in OverlappingPairs(nodes) : CanShrink(nodes[Smaller(nodes, q[1], q[2])]))
            => nodes' # nodes

\* C7 amended: the sweeps shrink the smaller node of an overlapping pair
\* until one more step would take its scale below MAX_SCALE_DOWN, and from
\* then on leave it alone; a further sweep then changes nothing and reports
\* no change; no sweep puts a scale below MAX_SCALE_DOWN (a node that
\* initial_rescale left below it is never shrunk at all).
C7_ShrinkUntilFloor == [] C7_Settled /\ [][C7_Sweep]_vars

\* the sweeps have settled with the smaller node of a pair that has
\* overlapped ever since placement shrunk as far as it goes
C7_Witness ==
    /\ SweepsSettled
    /\ \E q \in OverlappingPairs(nodes) \ apart :
        nodes[Smaller(nodes, q[1], q[2])].scale = FloorScale

\* the sweeps logged for one iteration
SweepsOf(i) ==
    {p \in 1..Len(calls) : calls[p].op = "attempt_rescale" /\ calls[p].iteration = i}

\* C8: run_relaxation calls apply_forces once in each of the iterations
\* 0, 1, ..., in that order, and has made RELAXATION_ITERATIONS of these
\* calls when it returns; every sweep is in an iteration that is a multiple
\* of 20, after that iteration's apply_forces, is one of at most
\* MAX_RESCALE_ATTEMPTS of that iteration, and does not follow a sweep that
\* reported no change.
C8_Driver ==
    /\ \A p \in 1..Len(calls) :
        IF calls[p].op = "apply_forces"
        THEN calls[p].iteration =
                Cardinality({q \in 1..(p - 1) : calls[q].op = "apply_forces"})
        ELSE /\ calls[p].iteration % 20 = 0
             /\ p > 1
             /\ calls[p - 1].iteration = calls[p].iteration
             /\ calls[p - 1].op = "attempt_rescale" => calls[p - 1].changed
             /\ Cardinality(SweepsOf(calls[p].iteration)) <= MAX_RESCALE_ATTEMPTS
    /\ pc \in {"forces", "rescale"} => iteration < RELAXATION_ITERATIONS
    /\ pc = "relaxed" =>
        /\ iteration = RELAXATION_ITERATIONS
        /\ Cardinality({q \in 1..Len(calls) : calls[q].op = "apply_forces"})
             = RELAXATION_ITERATIONS

\* a finished relaxation one of whose rescale loops used up its attempts,
\* every sweep of it reporting a change, and another of whose rescale loops
\* was left on a sweep that reported none
C8_Witness ==
    /\ pc = "relaxed"
    /\ Cardinality(SweepsOf(0)) = MAX_RESCALE_ATTEMPTS
    /\ \A p \in SweepsOf(0) : calls[p].changed
    /\ \E p \in SweepsOf(RESCALE_PERIOD) : ~ calls[p].changed

\* the node of the layout that holds the image
NodeOf(ns, img) == ns[CHOOSE k \in 1..Len(ns) : ns[k].image = img]

Geometry(n) == <<n.scale, n.width, n.height>>

Position(n) == <<n.x, n.y>>

\* C9: apply_forces changes nothing of a node but x and y, attempt_rescale
\* nothing but scale, width and height; within a trial an image's position
\* changes only in place_initial and apply_forces, its scale and size only
\* in initial_rescale and attempt_rescale.
C9_Step ==
    /\ pc = "forces" =>
        /\ Len(nodes') = Len(nodes)
        /\ \A k \in Indices :
            nodes'[k] = [nodes[k] EXCEPT !.x = nodes'[k].x, !.y = nodes'[k].y]
    /\ pc = "rescale" =>
        /\ Len(nodes') = Len(nodes)
        /\ \A k \in Indices :
            nodes'[k] = [nodes[k] EXCEPT !.scale = nodes'[k].scale,
                                         !.width = nodes'[k].width,
                                         !.height = nodes'[k].height]
    /\ pc \notin {"trial", "ordered", "forces"} =>
        \A k \in Indices :
            Position(NodeOf(nodes', nodes[k].image)) = Position(nodes[k])
    /\ pc \notin {"trial", "loaded", "rescale"} =>
        \A k \in Indices :
            Geometry(NodeOf(nodes', nodes[k].image)) = Geometry(nodes[k])

C9_Frame == [][C9_Step]_vars

\* the relaxation is over, a node has been moved and a node has been shrunk
C9_Witness ==
    /\ pc = "relaxed"
    /\ \E k \in Indices : k > 1 /\ Position(nodes[k]) # Position(PlacedNode(nodes, k))
    /\ \E k \in Indices : nodes[k].scale # InitialScale(nodes[k])

Area(n) == n.width * n.height

\* the nodes the t-th pair of a sweep of the current layout changes
Touched(t) ==
    {m \in Indices : SweepAfter(nodes, t).nodes[m] # SweepAfter(nodes, t - 1).nodes[m]}

\* C10: in a sweep each pair changes at most one node, one of the pair,
\* only when the margined boxes overlap, and never the one of the larger
\* area (the areas being those the sweep has reached); the sweep reports a
\* change exactly when it changed some node's scale.
C10_Sweep ==
    pc = "rescale" =>
        /\ \A t \in 1..Len(Pairs(Len(nodes))) :
            LET i == Pairs(Len(nodes))[t][1]
                j == Pairs(Len(nodes))[t][2]
                before == SweepAfter(nodes, t - 1).nodes
            IN  /\ Cardinality(Touched(t)) <= 1
                /\ Touched(t) \subseteq {i, j}
                /\ Touched(t) # {} =>
                    boxes_overlap(bounding_box(before[i]), bounding_box(before[j]))
                /\ i \in Touched(t) => Area(before[i]) < Area(before[j])
                /\ j \in Touched(t) => Area(before[j]) <= Area(before[i])
        /\ attempt_rescale(nodes).changed <=>
            \E k \in Indices : attempt_rescale(nodes).nodes[k].scale # nodes[k].scale

\* a sweep about to shrink the first node of a pair, and the second node of
\* another
C10_Witness ==
    /\ pc = "rescale"
    /\ \E t \in 1..Len(Pairs(Len(nodes))) : Touched(t) = {Pairs(Len(nodes))[t][1]}
    /\ \E t \in 1..Len(Pairs(Len(nodes))) : Touched(t) = {Pairs(Len(nodes))[t][2]}

====
